---------------------------- MODULE Spec2Model ----------------------------
(***************************************************************************)
(* A model of lagomorph's affine layer (lagomorph/affine/__init__.py) and  *)
(* of the flow composition primitive (lagomorph/deform.py).                *)
(*                                                                         *)
(* Each operation of the library is modelled as a small state machine      *)
(* with its own specification:                                             *)
(*   SpecAvg      batch_average                                            *)
(*   SpecInverse  affine_inverse (invert_2x2, minor, invert_3x3)           *)
(*   SpecRegrid   regrid and RegridFunction.forward                        *)
(*   SpecCompose  composeHV, interp_vec, interp_vectorfield_kernel         *)
(*   SpecAtlas    affine_atlas                                             *)
(* Floating point values are modelled as exact rationals <<num, den>>.     *)
(***************************************************************************)
EXTENDS Integers, Sequences, FiniteSets, TLC

VARIABLES
    \* ---- batch_average ----
    img_dtype,      \* dtype of the tensors the dataloader yields
    batches,        \* the batches the loop has consumed so far, in order
    avg,            \* local avg (None or a vector of float64)
    dtype,          \* local dtype (None or the dtype of the first batch)
    sumsizes,       \* local sumsizes
    ba_pc,          \* position in batch_average
    ba_ret,         \* the returned tensor [val, dtype]
    \* ---- affine_inverse ----
    A,              \* argument A of the current call: a batch of matrices
    T,              \* argument T of the current call: a batch of vectors
    Ainv,           \* returned Ainv
    Tinv,           \* returned Tinv
    inv_pc,         \* position: "call", "returned" or the exception raised
    inv_args,       \* the arguments of the calls made so far, in order
    \* ---- regrid / RegridFunction.forward ----
    I_shape,        \* I.shape as [chan |-> I.shape[1], size |-> I.shape[2:]]
    rg_args,        \* the arguments shape, origin, spacing as the caller gave them
    shape,          \* local shape
    origin,         \* local origin
    spacing,        \* local spacing
    displacement,   \* argument displacement
    rg_pc,          \* position in regrid, or the exception raised
    rg_calls,       \* the calls of lagomorph_cuda.regrid_forward made so far
    rg_ret,         \* the returned tensor: its grid and the factor applied to it
    \* ---- composeHV ----
    h,              \* argument h: a deformation field
    v,              \* argument v: a velocity field
    dt,             \* argument dt
    hv_displacement,\* argument displacement of composeHV
    xv,             \* local xv, "unbound" until it is assigned
    out,            \* local out
    hv_pc,          \* position in composeHV, or the exception raised
    hv_calls,       \* the interpolation kernels launched so far
    \* ---- affine_atlas ----
    params,         \* the arguments of the call
    at_pc,          \* position in affine_atlas, or the exception raised
    epoch,          \* loop variable epoch
    it,             \* loop variable it
    affit,          \* loop variable affit
    image_iters,    \* local image_iters
    I_grad,         \* I.grad: the coefficient of every minibatch's atlas gradient
    I_steps,        \* number of image_optimizer.step() calls made on I
    since_step,     \* the minibatches whose atlas gradient was produced since the last step
    step_log,       \* one record per image_optimizer.step() call
    As,             \* the population As
    Ts,             \* the population Ts
    A_mb,           \* local A of the current minibatch
    T_mb,           \* local T of the current minibatch
    epoch_loss,     \* local epoch_loss
    epoch_losses,   \* local epoch_losses
    iter_losses     \* local iter_losses

avgVars == <<img_dtype, batches, avg, dtype, sumsizes, ba_pc, ba_ret>>

invVars == <<A, T, Ainv, Tinv, inv_pc, inv_args>>

regridVars == <<I_shape, rg_args, shape, origin, spacing, displacement, rg_pc,
                rg_calls, rg_ret>>

composeVars == <<h, v, dt, hv_displacement, xv, out, hv_pc, hv_calls>>

atlasVars == <<params, at_pc, epoch, it, affit, image_iters, I_grad, I_steps,
               since_step, step_log, As, Ts, A_mb, T_mb, epoch_loss,
               epoch_losses, iter_losses>>

vars == <<avgVars, invVars, regridVars, composeVars, atlasVars>>

None == "None"      \* Python's None, for names and dtypes
NoTensor == <<>>      \* Python's None, where a tensor is expected

(***************************************************************************)
(* The state of an operation that is not running.                          *)
(***************************************************************************)
IdleAvg ==
    /\ img_dtype = None
    /\ batches = <<>>
    /\ avg = NoTensor
    /\ dtype = None
    /\ sumsizes = 0
    /\ ba_pc = "idle"
    /\ ba_ret = [val |-> NoTensor, dtype |-> None]

IdleInverse ==
    /\ A = <<>>
    /\ T = <<>>
    /\ Ainv = <<>>
    /\ Tinv = <<>>
    /\ inv_pc = "idle"
    /\ inv_args = <<>>

IdleRegrid ==
    /\ I_shape = <<>>
    /\ rg_args = <<>>
    /\ shape = <<>>
    /\ origin = <<>>
    /\ spacing = <<>>
    /\ displacement = FALSE
    /\ rg_pc = "idle"
    /\ rg_calls = <<>>
    /\ rg_ret = <<>>

IdleCompose ==
    /\ h = <<>>
    /\ v = <<>>
    /\ dt = 0
    /\ hv_displacement = FALSE
    /\ xv = "unbound"
    /\ out = "unbound"
    /\ hv_pc = "idle"
    /\ hv_calls = <<>>

IdleAtlas ==
    /\ params = <<>>
    /\ at_pc = "idle"
    /\ epoch = 0
    /\ it = 0
    /\ affit = 0
    /\ image_iters = 0
    /\ I_grad = {}
    /\ I_steps = 0
    /\ since_step = {}
    /\ step_log = <<>>
    /\ As = <<>>
    /\ Ts = <<>>
    /\ A_mb = <<>>
    /\ T_mb = <<>>
    /\ epoch_loss = 0
    /\ epoch_losses = <<>>
    /\ iter_losses = <<>>

(***************************************************************************)
(* Bounds of the model.                                                    *)
(***************************************************************************)
MaxItem == 3          \* batch_average: items are the vectors <<x, x+1>>, x \in 1..MaxItem
MaxBatchSize == 3     \* batch_average: items per batch
MaxStream == 3        \* batch_average: batches per dataloader
MaxDiag == 5          \* affine_inverse: diagonal entries are in 1..MaxDiag
MaxT == 1             \* affine_inverse: translations are <<t, t+1, ..>>, t \in 0..MaxT
MaxBatch == 2         \* affine_inverse: samples per batch
MaxInSize == 3        \* regrid: the input has 2..MaxInSize voxels per axis
MaxOutSize == 3       \* regrid: shape asks for 1..MaxOutSize voxels per axis
MaxSpacing == 2       \* regrid: spacing is in 1..MaxSpacing
MaxH == 1             \* composeHV: the entries of h are in 0..MaxH
MaxV == 1             \* composeHV: the entries of v are in 0..MaxV
MaxDt == 2            \* composeHV: dt is in 0..MaxDt
MaxSamples == 4       \* affine_atlas: len(dataset) is in 1..MaxSamples
MaxMinibatch == 2     \* affine_atlas: batch_size is in 1..MaxMinibatch
MaxEpochs == 2        \* affine_atlas: num_epochs is in 1..MaxEpochs
MaxFreq == 3          \* affine_atlas: image_update_freq is in 0..MaxFreq
MaxRate == 2          \* affine_atlas: learning_rate_A, learning_rate_T are in 1..MaxRate
MaxAffineSteps == 2   \* affine_atlas: affine_steps is in 1..MaxAffineSteps
MaxWorld == 2         \* affine_atlas: world_size is in 1..MaxWorld

(***************************************************************************)
(* Exact rational arithmetic standing for the float arithmetic of the      *)
(* code.  A rational is <<n, d>> with d > 0 and gcd(n, d) = 1.             *)
(***************************************************************************)
Abs(x) == IF x < 0 THEN -x ELSE x

RECURSIVE GCD(_, _)
GCD(a, b) == IF b = 0 THEN a ELSE GCD(b, a % b)

Rat(n, d) ==
    LET s == IF d < 0 THEN -1 ELSE 1
        g == GCD(Abs(n), Abs(d))
    IN  <<(s * n) \div g, (s * d) \div g>>

Int2Rat(n) == <<n, 1>>
RZero == <<0, 1>>
ROne == <<1, 1>>
RAdd(p, q) == Rat(p[1] * q[2] + q[1] * p[2], p[2] * q[2])
RNeg(p) == <<-p[1], p[2]>>
RSub(p, q) == RAdd(p, RNeg(q))
RMul(p, q) == Rat(p[1] * q[1], p[2] * q[2])
RDiv(p, q) == Rat(p[1] * q[2], p[2] * q[1])

\* a tensor is stored as the sequence of its entries along the first axis
Tensor(f) == f \o <<>>

\* elementwise tensor arithmetic on vectors of rationals
VAdd(u, w) == Tensor([i \in 1..Len(u) |-> RAdd(u[i], w[i])])
VScale(u, r) == Tensor([i \in 1..Len(u) |-> RMul(u[i], r)])
VDiv(u, r) == Tensor([i \in 1..Len(u) |-> RDiv(u[i], r)])

(***************************************************************************)
(* batch_average                                                           *)
(***************************************************************************)
\* the items a dataloader may yield, and the batches made of them
Items == {<<x, x + 1>> : x \in 1..MaxItem}
Batches == UNION {[1..n -> Items] : n \in 1..MaxBatchSize}

\* img.type(torch.float64).sum(dim=0)
RECURSIVE SumDim0(_)
SumDim0(img) ==
    IF Len(img) = 0 THEN <<RZero, RZero>>
    ELSE VAdd(SumDim0(SubSeq(img, 1, Len(img) - 1)),
              [i \in 1..2 |-> Int2Rat(img[Len(img)][i])])

\* the value avg takes in one iteration of the loop
RunningAverage(avg0, sumsizes0, avi, sz) ==
    IF avg0 = NoTensor
    THEN avi
    ELSE VAdd(VScale(avg0, RDiv(Int2Rat(sumsizes0), Int2Rat(sumsizes0 + sz))),
              VDiv(avi, Int2Rat(sumsizes0 + sz)))

\* the dtype of the returned tensor
ReturnDtype(ty) == IF ty \in {"float32", "float64"} THEN ty ELSE "float64"

InitAvg ==
    /\ img_dtype \in {"float32", "float64", "int64"}
    /\ batches = <<>>
    /\ avg = NoTensor
    /\ dtype = None
    /\ sumsizes = 0
    /\ ba_pc = "loop"
    /\ ba_ret = [val |-> NoTensor, dtype |-> None]
    /\ IdleInverse /\ IdleRegrid /\ IdleCompose /\ IdleAtlas

\* one iteration of the loop over the dataloader
AvgBatch ==
    /\ ba_pc = "loop"
    /\ Len(batches) < MaxStream
    /\ \E img \in Batches :
        LET sz == Len(img)
            avi == SumDim0(img)
        IN  /\ batches' = Append(batches, img)
            /\ dtype' = IF dtype = None THEN img_dtype ELSE dtype
            /\ avg' = RunningAverage(avg, sumsizes, avi, sz)
            /\ sumsizes' = sumsizes + sz
    /\ UNCHANGED <<img_dtype, ba_pc, ba_ret>>
    /\ UNCHANGED <<invVars, regridVars, composeVars, atlasVars>>

\* the dataloader is exhausted: cast and return
AvgReturn ==
    /\ ba_pc = "loop"
    /\ ba_ret' = IF avg = NoTensor
                 THEN [val |-> NoTensor, dtype |-> None]
                 ELSE [val |-> avg, dtype |-> ReturnDtype(dtype)]
    /\ ba_pc' = "done"
    /\ UNCHANGED <<img_dtype, batches, avg, dtype, sumsizes>>
    /\ UNCHANGED <<invVars, regridVars, composeVars, atlasVars>>

NextAvg == AvgBatch \/ AvgReturn

SpecAvg == InitAvg /\ [][NextAvg]_vars

(***************************************************************************)
(* Claims about batch_average                                              *)
(***************************************************************************)
\* the sum of the batch sums and the sum of the batch sizes of a dataloader
RECURSIVE SumOfBatchSums(_)
SumOfBatchSums(bs) ==
    IF Len(bs) = 0 THEN <<RZero, RZero>>
    ELSE VAdd(SumOfBatchSums(SubSeq(bs, 1, Len(bs) - 1)), SumDim0(bs[Len(bs)]))

RECURSIVE SumOfBatchSizes(_)
SumOfBatchSizes(bs) ==
    IF Len(bs) = 0 THEN 0
    ELSE SumOfBatchSizes(SubSeq(bs, 1, Len(bs) - 1)) + Len(bs[Len(bs)])

\* C2: for every non-empty sequence of batches, batch_average returns
\* (the sum of all batch sums) / (the sum of all batch sizes).
C2_BatchAverageIsMean ==
    (ba_pc = "done" /\ Len(batches) >= 1) =>
        ba_ret.val = VDiv(SumOfBatchSums(batches), Int2Rat(SumOfBatchSizes(batches)))

(***************************************************************************)
(* Matrix algebra and affine_inverse.  A batch of matrices is a sequence   *)
(* (one entry per sample) of sequences of rows; indices are 1-based.       *)
(***************************************************************************)
\* A.shape[1], A.shape[2] and T.shape[1]
Shape1(M) == Len(M[1])
Shape2(M) == Len(M[1][1])

\* det_2x2(A), one determinant per sample
det_2x2(M) ==
    Tensor([n \in 1..Len(M) |->
        RSub(RMul(M[n][1][1], M[n][2][2]), RMul(M[n][1][2], M[n][2][1]))])

\* invert_2x2(A): the adjugate over the determinant
invert_2x2(M) ==
    LET det == det_2x2(M)
    IN  Tensor([n \in 1..Len(M) |->
            << <<RDiv(M[n][2][2], det[n]), RDiv(RNeg(M[n][1][2]), det[n])>>,
               <<RDiv(RNeg(M[n][2][1]), det[n]), RDiv(M[n][1][1], det[n])>> >>])

\* A.narrow(axis, 0, i) ++ A.narrow(axis, i+1, n-i-1) on a sequence: drop entry i (0-based)
Drop(s, i) == Tensor([k \in 1..(Len(s) - 1) |-> IF k <= i THEN s[k] ELSE s[k + 1]])

\* minor(A, i, j): delete row i and column j (0-based) in every sample
minor(M, i, j) ==
    Tensor([n \in 1..Len(M) |->
        LET rows == Drop(M[n], i)
        IN  Tensor([r \in 1..Len(rows) |-> Drop(rows[r], j)])])

\* a cofactor matrix written without its alternating signs
CofactorSignAllPlus(i, j) == 1

\* the sign the source writes in front of det_2x2(minor(A, i, j))
CofactorSign(i, j) == IF (i + j) % 2 = 0 THEN 1 ELSE -1

\* entry number k (0-based) of the tuple given to torch.stack in invert_3x3
StackedCofactor(M, k) ==
    LET i == k \div 3
        j == k % 3
        d == det_2x2(minor(M, i, j))
    IN  Tensor([n \in 1..Len(M) |-> IF CofactorSign(i, j) = 1 THEN d[n] ELSE RNeg(d[n])])

\* torch.stack(..., dim=1).view(-1,3,3).transpose(1,2)
Cofactors(M) ==
    LET stacked == Tensor([k \in 1..9 |-> StackedCofactor(M, k - 1)])
    IN  Tensor([n \in 1..Len(M) |->
            Tensor([r \in 1..3 |->
                Tensor([c \in 1..3 |-> stacked[3 * (c - 1) + (r - 1) + 1][n]])])])

\* invert_3x3(A): the transposed cofactor matrix over the determinant
invert_3x3(M) ==
    LET cofactors == Cofactors(M)
        det == Tensor([n \in 1..Len(M) |->
                   RAdd(RAdd(RMul(cofactors[n][1][1], M[n][1][1]),
                             RMul(cofactors[n][2][1], M[n][1][2])),
                        RMul(cofactors[n][3][1], M[n][1][3]))])
    IN  Tensor([n \in 1..Len(M) |->
            Tensor([r \in 1..3 |->
                Tensor([c \in 1..3 |-> RDiv(cofactors[n][r][c], det[n])])])])

\* sum of the rationals f[1] .. f[k]
RECURSIVE RSum(_, _)
RSum(f, k) == IF k = 0 THEN RZero ELSE RAdd(RSum(f, k - 1), f[k])

\* torch.matmul(M, V.unsqueeze(2)).squeeze(2): one matrix-vector product per sample
MatVec(M, V) ==
    Tensor([n \in 1..Len(M) |->
        Tensor([r \in 1..Len(M[n]) |->
            RSum(Tensor([c \in 1..Len(V[n]) |-> RMul(M[n][r][c], V[n][c])]),
                 Len(V[n]))])])

\* the assertions at the head of affine_inverse
InverseAsserts(M, V) ==
    /\ Shape1(M) = Shape2(M)
    /\ Shape1(M) = Len(V[1])
    /\ Shape1(M) \in {2, 3}

\* the translation affine_inverse returns
InverseTranslation(Minv, V) ==
    LET p == MatVec(Minv, V)
    IN  Tensor([n \in 1..Len(p) |-> Tensor([r \in 1..Len(p[n]) |-> RNeg(p[n][r])])])

\* affine_inverse(A, T) for arguments that pass the assertions
affine_inverse(M, V) ==
    LET Minv == IF Shape1(M) = 2 THEN invert_2x2(M) ELSE invert_3x3(M)
    IN  <<Minv, InverseTranslation(Minv, V)>>

\* the inputs: matrices with a diagonal in 1..MaxDiag and off-diagonal
\* entries o above and -o below the diagonal, o \in {0, 1}
OffDiag(i, j, o) == IF i < j THEN o[i][j] ELSE -o[j][i]

Matrices(d) ==
    {[i \in 1..d |-> [j \in 1..d |->
          Int2Rat(IF i = j THEN dg[i] ELSE OffDiag(i, j, o))]] :
        dg \in [1..d -> 1..MaxDiag], o \in [1..(d - 1) -> [2..d -> {0, 1}]]}

Vectors(d) == {[i \in 1..d |-> Int2Rat(t + i - 1)] : t \in 0..MaxT}

Invertible(m) ==
    IF Len(m) = 2 THEN det_2x2(<<m>>)[1] # RZero
    ELSE RSum([c \in 1..3 |-> RMul(Cofactors(<<m>>)[1][c][1], m[1][c])], 3) # RZero

\* a few samples for the batches of more than one sample
BatchSamples(d) ==
    {<<m, t>> \in Matrices(d) \X Vectors(d) :
        /\ Invertible(m)
        /\ t[1] = ROne
        /\ \A i \in 1..d : m[i][i] = Int2Rat(i + 1)
        /\ \A i, j \in 1..d : (i # j /\ i + j # 3) => m[i][j] = RZero}

\* arguments that the assertions reject: a 1x1 batch, a non-square batch,
\* and a translation of the wrong length
Malformed ==
    { << << << <<ROne>> >> >>, << <<ROne>> >> >>,
      << << << <<ROne, RZero, RZero>>, <<RZero, ROne, RZero>> >> >>, << <<ROne, ROne>> >> >>,
      << << << <<ROne, RZero>>, <<RZero, ROne>> >> >>, << <<ROne, ROne, ROne>> >> >> }

InitInverse ==
    /\ \/ \E d \in {2, 3} : \E m \in Matrices(d), t \in Vectors(d) :
            /\ Invertible(m)
            /\ A = <<m>>
            /\ T = <<t>>
       \/ \E d \in {2, 3}, n \in 2..MaxBatch : \E b \in [1..n -> BatchSamples(d)] :
            /\ A = [k \in 1..n |-> b[k][1]]
            /\ T = [k \in 1..n |-> b[k][2]]
       \/ \E b \in Malformed :
            /\ A = b[1]
            /\ T = b[2]
    /\ Ainv = <<>>
    /\ Tinv = <<>>
    /\ inv_pc = "call"
    /\ inv_args = <<>>
    /\ IdleAvg /\ IdleRegrid /\ IdleCompose /\ IdleAtlas

\* one call of affine_inverse(A, T)
AffineInverse ==
    /\ inv_pc = "call"
    /\ inv_args' = Append(inv_args, <<A, T>>)
    /\ IF InverseAsserts(A, T)
       THEN LET ret == affine_inverse(A, T)
            IN  /\ Ainv' = ret[1]
                /\ Tinv' = ret[2]
                /\ inv_pc' = "returned"
       ELSE /\ inv_pc' = "AssertionError"
            /\ UNCHANGED <<Ainv, Tinv>>
    /\ UNCHANGED <<A, T>>
    /\ UNCHANGED <<avgVars, regridVars, composeVars, atlasVars>>

\* the caller inverts the transform it got back
InvertAgain ==
    /\ inv_pc = "returned"
    /\ Len(inv_args) < 2
    /\ A' = Ainv
    /\ T' = Tinv
    /\ inv_pc' = "call"
    /\ UNCHANGED <<Ainv, Tinv, inv_args>>
    /\ UNCHANGED <<avgVars, regridVars, composeVars, atlasVars>>

NextInverse == AffineInverse \/ InvertAgain

SpecInverse == InitInverse /\ [][NextInverse]_vars

(***************************************************************************)
(* Claims about affine_inverse                                             *)
(***************************************************************************)
IdentityMatrix(d) ==
    [i \in 1..d |-> [j \in 1..d |-> IF i = j THEN ROne ELSE RZero]]

\* the product of two matrices of one sample
MatMul(m, k) ==
    [i \in 1..Len(m) |-> [j \in 1..Len(k[1]) |->
        RSum([c \in 1..Len(k) |-> RMul(m[i][c], k[c][j])], Len(k))]]

DiagMatrix(dg) ==
    [i \in 1..Len(dg) |-> [j \in 1..Len(dg) |-> IF i = j THEN dg[i] ELSE RZero]]

\* C8: for every batch of invertible 2x2 or 3x3 matrices A with
\* translations T, the returned (Ainv, Tinv) satisfies, in every sample,
\* A*Ainv = identity and A*Tinv + T = 0; every sample's result is the one
\* that sample gets in a batch of its own; and inverting the result again
\* returns the original (A, T).
C8_AffineInverseInverts ==
    inv_pc = "returned" =>
        /\ \A n \in 1..Len(A) :
            /\ MatMul(A[n], Ainv[n]) = IdentityMatrix(Len(A[n]))
            /\ VAdd(MatVec(A, Tinv)[n], T[n]) = [i \in 1..Len(T[n]) |-> RZero]
            /\ affine_inverse(<<A[n]>>, <<T[n]>>) = << <<Ainv[n]>>, <<Tinv[n]>> >>
        /\ Len(inv_args) = 2 => <<Ainv, Tinv>> = inv_args[1]

\* diag(2,4,5) has been inverted to diag(1/2,1/4,1/5)
C8_Witness ==
    /\ inv_pc = "returned"
    /\ Len(inv_args) = 1
    /\ A = <<DiagMatrix(<<Int2Rat(2), Int2Rat(4), Int2Rat(5)>>)>>
    /\ Ainv = <<DiagMatrix(<<Rat(1, 2), Rat(1, 4), Rat(1, 5)>>)>>

(***************************************************************************)
(* regrid and RegridFunction.forward.  An optional argument is             *)
(* [kind |-> "none"], [kind |-> "scalar", val |-> x] or                    *)
(* [kind |-> "tuple", val |-> <<..>>].                                     *)
(***************************************************************************)
NoneArg == [kind |-> "none", val |-> <<>>]
Scalar(x) == [kind |-> "scalar", val |-> <<x>>]
Tuple(t) == [kind |-> "tuple", val |-> t]
IsNone(a) == a.kind = "none"

\* the spatial dimensions of the modelled inputs
Dims == {1, 2}

\* tuple([x]*d)
Replicate(x, d) == Tensor([i \in 1..d |-> x])

\* origin = tuple([(s-1)*.5 for s in I.shape[2:]])
CenterOrigin(size) == Tensor([i \in 1..Len(size) |-> Rat(size[i] - 1, 2)])

\* zip(I.shape[2:], shape) stops at the shorter of the two
ZipLen(size, sh) == IF Len(size) < Len(sh) THEN Len(size) ELSE Len(sh)

\* the spacing of one axis in the comprehension of line 248
AxisSpacing(sI, s) == Rat(sI - 1, s - 1)

\* spacing = tuple([(sI-1)/(s-1) for sI, s in zip(I.shape[2:],shape)])
DerivedSpacing(size, sh) ==
    Tensor([i \in 1..ZipLen(size, sh) |-> AxisSpacing(size[i], sh[i])])

\* the branches of lines 233-243 with the two exceptions exchanged
ResolveOutcomeSwapped(sh, og, sp) ==
    IF IsNone(sh)
    THEN IF IsNone(og)
         THEN IF IsNone(sp) THEN "NotImplementedError" ELSE "ValueError"
         ELSE IF IsNone(sp) THEN "ValueError" ELSE "NotImplementedError"
    ELSE IF IsNone(og) /\ ~IsNone(sp) THEN "ok" ELSE "NotImplementedError"

\* the outcome of the branches of lines 233-254: the exception raised, or "ok"
ResolveOutcome(sh, og, sp) ==
    IF IsNone(sh)
    THEN IF IsNone(og)
         THEN IF IsNone(sp) THEN "ValueError" ELSE "NotImplementedError"
         ELSE IF IsNone(sp) THEN "NotImplementedError" ELSE "ValueError"
    ELSE IF IsNone(og)
         THEN IF IsNone(sp)
              THEN IF sh.kind = "scalar" THEN "TypeError"
                   ELSE IF \E i \in 1..ZipLen(I_shape.size, sh.val) : sh.val[i] = 1
                        THEN "ZeroDivisionError"
                        ELSE "ok"
              ELSE "ok"
         ELSE "NotImplementedError"

\* lines 257-262: a scalar is repeated d times
Broadcast(a, d) == IF a.kind = "tuple" THEN a ELSE Tuple(Replicate(a.val[1], d))

\* 1./torch.Tensor(spacing), the factor of a rescaled displacement
InverseSpacing(sp) == Tensor([i \in 1..Len(sp) |-> RDiv(ROne, sp[i])])

ShapeArgs ==
    {NoneArg} \cup {Scalar(s) : s \in 1..MaxOutSize}
              \cup {Tuple(t) : t \in UNION {[1..d -> 1..MaxOutSize] : d \in Dims}}

OriginArgs ==
    {NoneArg, Scalar(ROne)} \cup {Tuple(Replicate(ROne, d)) : d \in Dims}

SpacingArgs ==
    {NoneArg} \cup {Scalar(Int2Rat(x)) : x \in 1..MaxSpacing}
              \cup {Tuple(Replicate(Int2Rat(x), d)) : x \in 1..MaxSpacing, d \in Dims}

InitRegrid ==
    /\ \E d \in Dims : \E c \in Dims, size \in [1..d -> 2..MaxInSize] :
           I_shape = [chan |-> c, size |-> size]
    /\ \E sh \in ShapeArgs, og \in OriginArgs, sp \in SpacingArgs :
           /\ rg_args = [shape |-> sh, origin |-> og, spacing |-> sp]
           /\ shape = sh
           /\ origin = og
           /\ spacing = sp
    /\ displacement \in BOOLEAN
    /\ rg_pc = "call"
    /\ rg_calls = <<>>
    /\ rg_ret = <<>>
    /\ IdleAvg /\ IdleInverse /\ IdleCompose /\ IdleAtlas

\* lines 233-254: resolve the output grid or raise
RegridResolve ==
    /\ rg_pc = "call"
    /\ LET res == ResolveOutcome(shape, origin, spacing)
       IN  IF res = "ok"
           THEN /\ origin' = Tuple(CenterOrigin(I_shape.size))
                /\ spacing' = IF IsNone(spacing)
                              THEN Tuple(DerivedSpacing(I_shape.size, shape.val))
                              ELSE spacing
                /\ rg_pc' = "resolved"
           ELSE /\ rg_pc' = res
                /\ UNCHANGED <<origin, spacing>>
    /\ UNCHANGED <<I_shape, rg_args, shape, displacement, rg_calls, rg_ret>>
    /\ UNCHANGED <<avgVars, invVars, composeVars, atlasVars>>

\* lines 256-265: repeat scalars in every dimension, check the lengths
RegridBroadcast ==
    /\ rg_pc = "resolved"
    /\ LET d == Len(I_shape.size)
           sh == Broadcast(shape, d)
           og == Broadcast(origin, d)
           sp == Broadcast(spacing, d)
       IN  /\ shape' = sh
           /\ origin' = og
           /\ spacing' = sp
           /\ rg_pc' = IF Len(sh.val) = d /\ Len(og.val) = d /\ Len(sp.val) = d
                       THEN "apply"
                       ELSE "AssertionError"
    /\ UNCHANGED <<I_shape, rg_args, displacement, rg_calls, rg_ret>>
    /\ UNCHANGED <<avgVars, invVars, composeVars, atlasVars>>

\* RegridFunction.forward, lines 154-166: the call of the resampling primitive
RegridForward ==
    /\ rg_pc = "apply"
    /\ rg_calls' = Append(rg_calls,
           [outshape |-> shape.val, origin |-> origin.val, spacing |-> spacing.val])
    /\ rg_pc' = "sampled"
    /\ UNCHANGED <<I_shape, rg_args, shape, origin, spacing, displacement, rg_ret>>
    /\ UNCHANGED <<avgVars, invVars, composeVars, atlasVars>>

\* RegridFunction.forward, lines 167-174: rescale a displacement, return
RegridReturn ==
    /\ rg_pc = "sampled"
    /\ IF displacement
       THEN IF I_shape.chan # Len(I_shape.size)
            THEN /\ rg_pc' = "ValueError"
                 /\ UNCHANGED rg_ret
            ELSE /\ rg_ret' = [grid |-> rg_calls[Len(rg_calls)],
                               factor |-> InverseSpacing(spacing.val)]
                 /\ rg_pc' = "returned"
       ELSE /\ rg_ret' = [grid |-> rg_calls[Len(rg_calls)], factor |-> <<>>]
            /\ rg_pc' = "returned"
    /\ UNCHANGED <<I_shape, rg_args, shape, origin, spacing, displacement, rg_calls>>
    /\ UNCHANGED <<avgVars, invVars, composeVars, atlasVars>>

NextRegrid == RegridResolve \/ RegridBroadcast \/ RegridForward \/ RegridReturn

SpecRegrid == InitRegrid /\ [][NextRegrid]_vars

(***************************************************************************)
(* Claims about regrid                                                     *)
(***************************************************************************)
RegridDim == Len(I_shape.size)
RegridEnded == rg_pc \notin {"idle", "call", "resolved", "apply", "sampled"}
RegridRaised == RegridEnded /\ rg_pc # "returned"

Given(name) == ~IsNone(rg_args[name])
OnlyShapeGiven == Given("shape") /\ ~Given("origin") /\ ~Given("spacing")
OnlyOriginGiven == ~Given("shape") /\ Given("origin") /\ ~Given("spacing")
AllGiven == Given("shape") /\ Given("origin") /\ Given("spacing")
NoneGiven == ~Given("shape") /\ ~Given("origin") /\ ~Given("spacing")
OriginAndSpacingOnly == ~Given("shape") /\ Given("origin") /\ Given("spacing")

\* an argument that fits the input: a scalar or a tuple with one entry per axis
FitsInput(a) == a.kind = "scalar" \/ (a.kind = "tuple" /\ Len(a.val) = RegridDim)

\* C3: with only shape given, the grid handed to the resampling primitive
\* has, on every axis, origin (input_size - 1)/2 and spacing
\* (output_size - 1)/(input_size - 1).
C3_ShapeOnlyGeometry ==
    (OnlyShapeGiven /\ Len(rg_calls) >= 1) =>
        \A i \in 1..RegridDim :
            /\ rg_calls[1].origin[i] = Rat(I_shape.size[i] - 1, 2)
            /\ rg_calls[1].spacing[i] =
                   Rat(rg_calls[1].outshape[i] - 1, I_shape.size[i] - 1)

\* C4: with only origin given, the call does not end in an error and
\* resamples onto the input's own shape with spacing 1.
C4_OriginOnlyTranslates ==
    (OnlyOriginGiven /\ FitsInput(rg_args.origin) /\ ~displacement /\ RegridEnded) =>
        /\ rg_pc = "returned"
        /\ rg_ret.grid.outshape = I_shape.size
        /\ rg_ret.grid.spacing = Replicate(ROne, RegridDim)

\* C5: with shape, origin and spacing all given, the call does not end in
\* an error and resamples with exactly the supplied shape, origin and spacing.
C5_AllGivenVerbatim ==
    (/\ AllGiven
     /\ FitsInput(rg_args.shape) /\ FitsInput(rg_args.origin) /\ FitsInput(rg_args.spacing)
     /\ ~displacement
     /\ RegridEnded) =>
        /\ rg_pc = "returned"
        /\ rg_ret.grid.outshape = Broadcast(rg_args.shape, RegridDim).val
        /\ rg_ret.grid.origin = Broadcast(rg_args.origin, RegridDim).val
        /\ rg_ret.grid.spacing = Broadcast(rg_args.spacing, RegridDim).val

\* the exceptions that report a malformed call
ConfigurationError(e) == e \in {"ValueError", "AssertionError"}

\* C6 as stated: regrid ends in a configuration error in exactly two cases:
\* nothing is given, or origin and spacing are given without shape.
C6_ConfigErrorOnlyInTwoCases ==
    RegridEnded =>
        (ConfigurationError(rg_pc) <=> (NoneGiven \/ OriginAndSpacingOnly))

\* shape is given without origin and lines 245-249 compute the grid
GridResolved ==
    /\ Given("shape") /\ ~Given("origin")
    /\ \/ Given("spacing")
       \/ /\ rg_args.shape.kind = "tuple"
          /\ \A i \in 1..RegridDim : i <= Len(rg_args.shape.val) => rg_args.shape.val[i] # 1

\* a tuple of the resolved grid has not one entry per axis
LengthMismatch ==
    \/ ~FitsInput(rg_args.shape)
    \/ Given("spacing") /\ ~FitsInput(rg_args.spacing)

\* C6 amended: regrid ends in a configuration error exactly when nothing is
\* given, when origin and spacing are given without shape, when the grid is
\* resolved but a tuple has not one entry per axis (assertion), or when the
\* grid is resolved and resampled, displacement is set and the input has
\* not one channel per axis (ValueError).
C6_ConfigErrorCases ==
    RegridEnded =>
        (ConfigurationError(rg_pc) <=>
            \/ NoneGiven
            \/ OriginAndSpacingOnly
            \/ GridResolved /\ LengthMismatch
            \/ GridResolved /\ ~LengthMismatch /\ displacement
                 /\ I_shape.chan # RegridDim)

\* origin and spacing were given without shape and regrid raised ValueError
C6_Witness ==
    /\ OriginAndSpacingOnly
    /\ rg_pc = "ValueError"
    /\ rg_calls = <<>>

(***************************************************************************)
(* composeHV, interp_vec and interp_vectorfield_kernel.  A field of shape  *)
(* (1, chan, n, .., n) with dim spatial axes is                            *)
(* [dim, chan, n, dtype, val], val[x] the chan-vector at the voxel x.      *)
(***************************************************************************)
Positions(d, n) == [1..d -> 0..(n - 1)]

Field(d, c, n, ty, val) == [dim |-> d, chan |-> c, n |-> n, dtype |-> ty, val |-> val]

\* a field with the same vector at every voxel
UniformField(d, c, n, ty, vec) == Field(d, c, n, ty, [x \in Positions(d, n) |-> vec])

\* x * a, elementwise
ScaleField(f, a) ==
    [f EXCEPT !.val = [x \in DOMAIN f.val |-> [i \in 1..f.chan |-> f.val[x][i] * a]]]

\* the sampling primitive interp_displacement_vectorfield_2d: g at x + d(x),
\* positions outside the grid taken at the nearest voxel
Clamp(k, n) == IF k < 0 THEN 0 ELSE IF k > n - 1 THEN n - 1 ELSE k

InterpDisplacement(g, d) ==
    [x \in DOMAIN g.val |->
        g.val[[i \in 1..g.dim |-> Clamp(x[i] + d.val[x][i], g.n)]]]

\* multiply_add(x, a, out=out): out += a * x
MultiplyAdd(x, a, o) ==
    [y \in DOMAIN o |-> [i \in 1..Len(o[y]) |-> o[y][i] + a * x.val[y][i]]]

\* the assertions of interp_vec (lines 120-125) and of
\* interp_vectorfield_kernel (lines 40-42), for out = empty_like(g)
InterpVecAsserts(g, d) ==
    /\ g.dim = d.dim
    /\ g.chan = g.dim
    /\ d.chan = g.dim
    /\ g.dtype = d.dtype

\* the branch interp_vectorfield_kernel takes on dim (lines 49-64)
KernelOutcome(d) ==
    IF d = 2 THEN "launch"
    ELSE IF d = 3 THEN "NotImplementedError" ELSE "Exception"

\* the 2D fields of the model have GridSize voxels per axis
GridSize == 2

\* h varies along the first axis: the vector at x is <<c[x[1]], c[x[1]]>>
HFields ==
    {Field(2, 2, GridSize, "float32",
           [x \in Positions(2, GridSize) |-> <<c[x[1]], c[x[1]]>>]) :
        c \in [0..(GridSize - 1) -> 0..MaxH]}

VFields ==
    {UniformField(2, 2, GridSize, ty, <<a, b>>) :
        ty \in {"float32", "float64"}, a \in 0..MaxV, b \in 0..MaxV}

OtherFieldPairs ==
    {<<UniformField(d, c, 1, "float32", [i \in 1..c |-> 0]),
       UniformField(e, c, 1, "float32", [i \in 1..c |-> 0])>> :
        d \in 1..3, e \in 1..3, c \in 1..3}

IsZeroField(f) == \A x \in DOMAIN f.val : \A i \in 1..f.chan : f.val[x][i] = 0

InitCompose ==
    /\ \E p \in (HFields \X VFields) \cup OtherFieldPairs :
           /\ h = p[1]
           /\ v = p[2]
    /\ dt \in 0..MaxDt
    /\ hv_displacement \in BOOLEAN
    /\ xv = "unbound"
    /\ out = "unbound"
    /\ hv_pc = "call"
    /\ hv_calls = <<>>
    /\ IdleAvg /\ IdleInverse /\ IdleRegrid /\ IdleAtlas

\* composeHV up to the call of interp_vec: lines 174-178, or 174-176 and 184
ComposeScale ==
    /\ hv_pc = "call"
    /\ out' = "empty"
    /\ IF hv_displacement
       THEN /\ xv' = ScaleField(v, dt)
            /\ hv_pc' = "interp_vec"
       ELSE /\ hv_pc' = "UnboundLocalError"
            /\ UNCHANGED xv
    /\ UNCHANGED <<h, v, dt, hv_displacement, hv_calls>>
    /\ UNCHANGED <<avgVars, invVars, regridVars, atlasVars>>

\* interp_vec(h, xv, out=out) up to the launch of the kernel
InterpVec ==
    /\ hv_pc = "interp_vec"
    /\ hv_pc' = IF ~InterpVecAsserts(h, xv) THEN "AssertionError"
                ELSE IF KernelOutcome(h.dim) = "launch" THEN "kernel"
                ELSE KernelOutcome(h.dim)
    /\ UNCHANGED <<h, v, dt, hv_displacement, xv, out, hv_calls>>
    /\ UNCHANGED <<avgVars, invVars, regridVars, atlasVars>>

\* the kernel runs and writes out (lines 52-60)
KernelLaunch ==
    /\ hv_pc = "kernel"
    /\ hv_calls' = Append(hv_calls, "interp_displacement_vectorfield_2d")
    /\ out' = InterpDisplacement(h, xv)
    /\ hv_pc' = "multiply_add"
    /\ UNCHANGED <<h, v, dt, hv_displacement, xv>>
    /\ UNCHANGED <<avgVars, invVars, regridVars, atlasVars>>

\* line 182 and the return
ComposeAdd ==
    /\ hv_pc = "multiply_add"
    /\ out' = MultiplyAdd(v, dt, out)
    /\ hv_pc' = "returned"
    /\ UNCHANGED <<h, v, dt, hv_displacement, xv, hv_calls>>
    /\ UNCHANGED <<avgVars, invVars, regridVars, atlasVars>>

NextCompose == ComposeScale \/ InterpVec \/ KernelLaunch \/ ComposeAdd

SpecCompose == InitCompose /\ [][NextCompose]_vars

(***************************************************************************)
(* Claims about composeHV                                                  *)
(***************************************************************************)
ComposeEnded == hv_pc \notin {"idle", "call", "interp_vec", "kernel", "multiply_add"}

\* C7: for a 2D field h and v identically zero, composeHV completes and
\* returns a field equal to h, whatever dt is and in both conventions.
C7_ZeroVelocityReturnsH ==
    (/\ ComposeEnded
     /\ h \in HFields /\ v \in VFields /\ v.dtype = h.dtype
     /\ IsZeroField(v)) =>
        /\ hv_pc = "returned"
        /\ out = h.val

(***************************************************************************)
(* affine_atlas.  The atlas gradient a minibatch produces is kept          *)
(* symbolic: I.grad is the set of <<epoch, it, c>> saying that the         *)
(* gradient of minibatch it of that epoch is in I.grad with coefficient c. *)
(* A_k and T_k are integers, zero at the start, moved by each gradient     *)
(* step by the learning rate times a unit gradient.                        *)
(***************************************************************************)
\* len(dataloader): batches of batch_size, drop_last=False
NumMinibatches(p) == (p.dataset_len + p.batch_size - 1) \div p.batch_size

\* the sample ids ix of minibatch number i (shuffle=False)
SampleIds(p, i) ==
    {k \in 0..(p.dataset_len - 1) : k \div p.batch_size = i}

\* image_optimizer.zero_grad()
ZeroGrad == {}

\* loss.backward() with I.requires_grad_(affit == affine_steps-1)
Backward(g, e, i, requires_grad) ==
    IF requires_grad THEN g \cup {<<e, i, ROne>>} ELSE g

\* I.grad = I.grad/(image_iters*world_size)
DivideGrad(g, iters, ws) ==
    {<<t[1], t[2], RDiv(t[3], Int2Rat(iters * ws))>> : t \in g}

\* an update test that also fires once the count has passed the frequency
UpdateDueAtLeast(iters, freq) == iters >= freq

\* line 370: image_iters == image_update_freq
UpdateDue(iters, freq) == iters = freq

\* line 333: the gradient is cleared at the start of the epoch
ClearedAtEpochStart(freq, e) == freq = 0 \/ e = 0

\* the gradient loss.backward() leaves in A.grad and T.grad (zeroed before
\* every affine step, lines 344-349); its value is the autodiff engine's and
\* is taken as the unit
UnitGrad == 1

\* a step that climbs the gradient instead of descending it
GradientAscent(x, lr, g) == x + lr * g

\* lines 367-368: A.add_(-learning_rate_A, A.grad), T.add_(-learning_rate_T, T.grad)
GradientStep(x, lr, g) == x - lr * g

\* lines 383-384: As[ix,...] = A, Ts[ix,...] = T
WriteBack(pop, mb) ==
    [k \in DOMAIN pop |-> IF k \in DOMAIN mb THEN mb[k] ELSE pop[k]]

\* the record of one image_optimizer.step()
StepRecord(e, place, g, since, iters) ==
    [epoch |-> e, place |-> place, grad |-> g, since |-> since, iters |-> iters,
     reduced |-> FALSE]

InitAtlas ==
    /\ \E n \in 1..MaxSamples, bs \in 1..MaxMinibatch, ne \in 1..MaxEpochs,
          f \in 0..MaxFreq, as \in 1..MaxAffineSteps, ws \in 1..MaxWorld,
          lrA \in 1..MaxRate, lrT \in 1..MaxRate :
           /\ params = [dataset_len |-> n, batch_size |-> bs, num_epochs |-> ne,
                        image_update_freq |-> f, affine_steps |-> as,
                        world_size |-> ws,
                        learning_rate_A |-> lrA, learning_rate_T |-> lrT]
           /\ As = [k \in 0..(n - 1) |-> 0]
           /\ Ts = [k \in 0..(n - 1) |-> 0]
    /\ at_pc = "setup"
    /\ epoch = 0
    /\ it = 0
    /\ affit = 0
    /\ image_iters = 0
    /\ I_grad = {}
    /\ I_steps = 0
    /\ since_step = {}
    /\ step_log = <<>>
    /\ A_mb = <<>>
    /\ T_mb = <<>>
    /\ epoch_loss = 0
    /\ epoch_losses = <<>>
    /\ iter_losses = <<>>
    /\ IdleAvg /\ IdleInverse /\ IdleRegrid /\ IdleCompose

\* lines 297-327: the names DistributedSampler and all_reduce are bound
\* nowhere in the module, so the distributed set-up raises NameError
AtlasSetup ==
    /\ at_pc = "setup"
    /\ at_pc' = IF params.world_size > 1 THEN "NameError" ELSE "epoch"
    /\ UNCHANGED <<params, epoch, it, affit, image_iters, I_grad, I_steps,
                   since_step, step_log, As, Ts, A_mb, T_mb, epoch_loss,
                   epoch_losses, iter_losses>>
    /\ UNCHANGED <<avgVars, invVars, regridVars, composeVars>>

\* lines 328-335: the head of the loop over the epochs
EpochStart ==
    /\ at_pc = "epoch"
    /\ epoch < params.num_epochs
    /\ epoch_loss' = 0
    /\ I_grad' = IF ClearedAtEpochStart(params.image_update_freq, epoch)
                 THEN ZeroGrad ELSE I_grad
    /\ image_iters' = 0
    /\ it' = 0
    /\ at_pc' = "minibatch"
    /\ UNCHANGED <<params, epoch, affit, I_steps, since_step, step_log, As, Ts,
                   A_mb, T_mb, epoch_losses, iter_losses>>
    /\ UNCHANGED <<avgVars, invVars, regridVars, composeVars>>

\* lines 336-340: gather the minibatch's affine parameters
MinibatchBegin ==
    /\ at_pc = "minibatch"
    /\ it < NumMinibatches(params)
    /\ A_mb' = [k \in SampleIds(params, it) |-> As[k]]
    /\ T_mb' = [k \in SampleIds(params, it) |-> Ts[k]]
    /\ affit' = 0
    /\ at_pc' = "affine"
    /\ UNCHANGED <<params, epoch, it, image_iters, I_grad, I_steps, since_step,
                   step_log, As, Ts, epoch_loss, epoch_losses, iter_losses>>
    /\ UNCHANGED <<avgVars, invVars, regridVars, composeVars>>

\* lines 341-368: one affine step
AffineStep ==
    /\ at_pc = "affine"
    /\ LET last == (affit = params.affine_steps - 1)
       IN  /\ I_grad' = Backward(I_grad, epoch, it, last)
           /\ since_step' = IF last THEN since_step \cup {<<epoch, it>>} ELSE since_step
           /\ at_pc' = IF last THEN "image_update" ELSE "affine"
    /\ iter_losses' = Append(iter_losses, <<epoch, it, affit>>)
    /\ A_mb' = [k \in DOMAIN A_mb |->
                    GradientStep(A_mb[k], params.learning_rate_A, UnitGrad)]
    /\ T_mb' = [k \in DOMAIN T_mb |->
                    GradientStep(T_mb[k], params.learning_rate_T, UnitGrad)]
    /\ affit' = affit + 1
    /\ UNCHANGED <<params, epoch, it, image_iters, I_steps, step_log, As, Ts,
                   epoch_loss, epoch_losses>>
    /\ UNCHANGED <<avgVars, invVars, regridVars, composeVars>>

\* lines 369-384: the atlas update inside the loop, the loss, the write-back
MinibatchEnd ==
    /\ at_pc = "image_update"
    /\ IF UpdateDue(image_iters + 1, params.image_update_freq)
       THEN IF params.world_size > 1
            THEN /\ at_pc' = "NameError"
                 /\ image_iters' = image_iters + 1
                 /\ UNCHANGED <<I_grad, I_steps, since_step, step_log, As, Ts,
                                epoch_loss, it>>
            ELSE /\ step_log' = Append(step_log,
                        StepRecord(epoch, "loop",
                                   DivideGrad(I_grad, image_iters + 1, params.world_size),
                                   since_step, image_iters + 1))
                 /\ I_steps' = I_steps + 1
                 /\ I_grad' = ZeroGrad
                 /\ since_step' = {}
                 /\ image_iters' = 0
                 /\ epoch_loss' = epoch_loss + 1
                 /\ As' = WriteBack(As, A_mb)
                 /\ Ts' = WriteBack(Ts, T_mb)
                 /\ it' = it + 1
                 /\ at_pc' = "minibatch"
       ELSE /\ image_iters' = image_iters + 1
            /\ epoch_loss' = epoch_loss + 1
            /\ As' = WriteBack(As, A_mb)
            /\ Ts' = WriteBack(Ts, T_mb)
            /\ it' = it + 1
            /\ at_pc' = "minibatch"
            /\ UNCHANGED <<I_grad, I_steps, since_step, step_log>>
    /\ UNCHANGED <<params, epoch, affit, A_mb, T_mb, epoch_losses, iter_losses>>
    /\ UNCHANGED <<avgVars, invVars, regridVars, composeVars>>

\* lines 385-393: the atlas update at the end of the epoch
EpochEnd ==
    /\ at_pc = "minibatch"
    /\ it = NumMinibatches(params)
    /\ IF image_iters > 0
       THEN IF params.world_size > 1
            THEN /\ at_pc' = "NameError"
                 /\ UNCHANGED <<I_grad, I_steps, since_step, step_log, epoch,
                                epoch_losses>>
            ELSE /\ I_grad' = DivideGrad(I_grad, image_iters, params.world_size)
                 /\ step_log' = Append(step_log,
                        StepRecord(epoch, "end",
                                   DivideGrad(I_grad, image_iters, params.world_size),
                                   since_step, image_iters))
                 /\ I_steps' = I_steps + 1
                 /\ since_step' = {}
                 /\ epoch_losses' = Append(epoch_losses, epoch_loss)
                 /\ epoch' = epoch + 1
                 /\ at_pc' = "epoch"
       ELSE /\ epoch_losses' = Append(epoch_losses, epoch_loss)
            /\ epoch' = epoch + 1
            /\ at_pc' = "epoch"
            /\ UNCHANGED <<I_grad, I_steps, since_step, step_log>>
    /\ UNCHANGED <<params, it, affit, image_iters, As, Ts, A_mb, T_mb, epoch_loss,
                   iter_losses>>
    /\ UNCHANGED <<avgVars, invVars, regridVars, composeVars>>

\* line 394
AtlasReturn ==
    /\ at_pc = "epoch"
    /\ epoch = params.num_epochs
    /\ at_pc' = "returned"
    /\ UNCHANGED <<params, epoch, it, affit, image_iters, I_grad, I_steps,
                   since_step, step_log, As, Ts, A_mb, T_mb, epoch_loss,
                   epoch_losses, iter_losses>>
    /\ UNCHANGED <<avgVars, invVars, regridVars, composeVars>>

NextAtlas ==
    \/ AtlasSetup
    \/ EpochStart
    \/ MinibatchBegin
    \/ AffineStep
    \/ MinibatchEnd
    \/ EpochEnd
    \/ AtlasReturn

SpecAtlas == InitAtlas /\ [][NextAtlas]_vars

(***************************************************************************)
(* Claims about affine_atlas                                               *)
(***************************************************************************)
\* the number of image_optimizer.step() calls of epoch e made at a place
StepsOf(e, place) ==
    Cardinality({i \in 1..Len(step_log) :
                    step_log[i].epoch = e /\ step_log[i].place = place})

\* C1: in every completed epoch, with M minibatches: image_update_freq = 0
\* gives exactly one atlas-optimizer step; image_update_freq = k > 0 gives
\* exactly floor(M/k) steps inside the minibatch loop, and one more at the
\* end of the epoch if and only if M mod k # 0.
C1_StepsPerEpoch ==
    at_pc \in {"epoch", "minibatch", "affine", "image_update", "returned"} =>
        \A e \in 0..(epoch - 1) :
            LET M == NumMinibatches(params)
                k == params.image_update_freq
            IN  IF k = 0
                THEN StepsOf(e, "loop") + StepsOf(e, "end") = 1
                ELSE /\ StepsOf(e, "loop") = M \div k
                     /\ StepsOf(e, "end") = (IF M % k # 0 THEN 1 ELSE 0)

\* two epochs of three minibatches with image_update_freq = 2 have run:
\* one step in the loop and one at the end of each epoch
C1_Witness ==
    /\ at_pc = "returned"
    /\ params.image_update_freq = 2
    /\ NumMinibatches(params) = 3
    /\ params.num_epochs = 2
    /\ StepsOf(0, "loop") = 1 /\ StepsOf(0, "end") = 1
    /\ StepsOf(1, "loop") = 1 /\ StepsOf(1, "end") = 1

\* C9: the gradient applied at every atlas-optimizer step is the sum of the
\* atlas gradients of exactly the minibatches processed since the previous
\* step, divided by (their number x world_size); nothing older contributes.
C9_StepUsesOnlyFreshGradients ==
    \A i \in 1..Len(step_log) :
        LET s == step_log[i]
        IN  s.grad = {<<mb[1], mb[2],
                        Rat(1, Cardinality(s.since) * params.world_size)>> :
                          mb \in s.since}

PlainDescent(x, lr, steps) == x - steps * lr * UnitGrad

C11_WritesOnlyMinibatchEntries ==
    [][IF at_pc = "image_update" /\ at_pc' = "minibatch"
       THEN \A k \in DOMAIN As :
              IF k \in SampleIds(params, it)
              THEN /\ As'[k] = PlainDescent(As[k], params.learning_rate_A,
                                            params.affine_steps)
                   /\ Ts'[k] = PlainDescent(Ts[k], params.learning_rate_T,
                                            params.affine_steps)
              ELSE As'[k] = As[k] /\ Ts'[k] = Ts[k]
       ELSE As' = As /\ Ts' = Ts]_vars

\* the first minibatch (ids 0, 1) of a dataset of three has been written
\* back after two affine steps with distinct learning rates; id 2 is untouched
C11_Witness ==
    /\ at_pc = "minibatch" /\ epoch = 0 /\ it = 1
    /\ params.dataset_len = 3 /\ params.batch_size = 2
    /\ params.affine_steps = 2
    /\ params.learning_rate_A = 1 /\ params.learning_rate_T = 2
    /\ As[0] = -2 /\ As[1] = -2 /\ As[2] = 0
    /\ Ts[0] = -4 /\ Ts[1] = -4 /\ Ts[2] = 0

(***************************************************************************)
(* Claims about the errors of all operations                               *)
(***************************************************************************)
\* C12: when regrid / RegridFunction or interp_vec / composeHV ends in a
\* configuration error or an unimplemented-feature error, that operation
\* has made no call to the external sampling primitive (regrid_forward, an
\* interpolation kernel) before the error is raised.
C12_ErrorsRaisedBeforeSampling ==
    /\ rg_pc \in {"ValueError", "AssertionError", "NotImplementedError"} =>
           rg_calls = <<>>
    /\ hv_pc \in {"AssertionError", "NotImplementedError", "Exception"} =>
           hv_calls = <<>>

=============================================================================
